---- MODULE Spec2Model ----
(***************************************************************************)
(* legit: the switch / sync / publish / unpublish workflows of             *)
(* legit/cli.py, run one command at a time against one repository.         *)
(* Every workflow step (one scm.status_log call of cli.py) is one action;  *)
(* pc is the position of the running command.  The repository object       *)
(* (SCMRepo, legit/scm.py) is the collaborator the commands call: working  *)
(* tree, stash list, branches, remote.  A command has the repository to    *)
(* itself while it runs: the user and the other users of the remote act    *)
(* between two commands (pc = "done" is the state a command ended in, and  *)
(* "idle" the state after somebody has acted since).                       *)
(***************************************************************************)
EXTENDS Integers, Sequences, FiniteSets, TLC

\* ------------------------------------------------------------------ bounds
MaxRuns == 2        \* commands run one after the other
MaxEnv == 3         \* steps of the user and of the remote's other users,
                    \* taken between two commands
MaxLen == 3         \* length of the lists given to sort_with_similarity
MaxClose == 2       \* length of a result of the close-match primitive

\* --------------------------------------------------------------- universe
Branches == {"main", "dev"}            \* the local branches
NONE == "<None>"                       \* Python's None
Args == Branches \cup {"mai", "zzz", "", NONE}   \* command-line branch arguments
Clean == "clean"                       \* no uncommitted change
Contents == {"w1", "w2"}               \* uncommitted working-tree contents
Conflicted == "conflicted"             \* tree left by a conflicting merge
LocalCommit1 == "l1"                   \* a commit made locally
RemoteCommit1 == "r1"                  \* a commit pushed by someone else
NoEntry == [tag |-> "", branch |-> "", content |-> ""]

VARIABLES
    \* the repository and its remote
    cur,            \* current branch name
    tree,           \* uncommitted content of the working tree
    stash,          \* stash list, most recent first
    tracking,       \* get_branch_names(local=False): remote-tracking branches
    remoteRefs,     \* branches that exist on the remote itself
    localC,         \* commits reachable from each local branch tip
    remoteC,        \* commits reachable from each remote branch tip
    hasRemote,      \* a remote is configured
    \* the shared SCMRepo object
    fake,           \* scm.fake
    \* the running command
    pc, cmd, arg, to_branch, swRet, branch, original_branch, is_external,
    result,         \* outcome of the run
    log,            \* backend actions invoked in this run, in order
    \* bookkeeping of the run, for the properties
    tree0, cur0, stash0, local0, tracking0, fake0,   \* as the run found them
    cliFake,        \* --fake is given to the group, before the command name
    prev,           \* the branch the command before this one published
    runs, envSteps,
    \* the command group: listing, resolving and installing the commands
    cpc,            \* position in list_commands / get_command / install
    commands,       \* names of the commands registered on the group
    caller,         \* who called sort_with_similarity
    iterable,       \* sort_with_similarity: its argument
    left_iterable,  \* the dict, as <<key, element>> pairs in insertion order
    todo,           \* the keys the for loop has still to visit
    ordered,        \* the list being built
    pulled,         \* elements appended as close matches of another
    install_fake,   \* install's own --fake
    confirmed,      \* answer to click.confirm: "unasked", "yes", "no"
    aliases,        \* install: the command list without 'install'
    alias_i,        \* install: position of the for loop over aliases
    system,         \* aliases os.system has written, in order
    cmd_name, rv    \* get_command: the name asked for and the result

repoVars == <<cur, tree, stash, tracking, remoteRefs, localC, remoteC, hasRemote>>
frameVars == <<cmd, arg, to_branch, swRet, branch, original_branch, is_external>>
histVars == <<tree0, cur0, stash0, local0, tracking0, fake0, cliFake, prev, runs>>
runVars == <<repoVars, fake, pc, frameVars, result, log, histVars, envSteps>>
cliVars == <<cpc, commands, caller, iterable, left_iterable, todo, ordered,
             pulled, install_fake, confirmed, aliases, alias_i, system,
             cmd_name, rv>>
vars == <<runVars, cliVars>>

Idle == pc \in {"idle", "done"}

\* ------------------------------------------------------- helper operators
\* Python truthiness of a branch argument
Truthy(q) == q \notin {NONE, ""}

\* Branch Resolver: exact match first, else the closest name, else none
fuzzy_match_branch(q) ==
    IF q \in Branches THEN q
    ELSE IF q = "mai" THEN "main"
    ELSE NONE

\* the stash message verb of stash_it / unstash_index
Tag(sync) == IF sync THEN "sync" ELSE "switch"

\* position in the stash list of the most recent entry pushed with this tag
\* on the current branch; 0 if there is none
unstash_index(sync) ==
    LET hits == {i \in 1..Len(stash) :
                    stash[i].tag = Tag(sync) /\ stash[i].branch = cur}
    IN IF hits = {} THEN 0 ELSE CHOOSE i \in hits : \A j \in hits : i <= j

RemoveAt(s, i) == SubSeq(s, 1, i - 1) \o SubSeq(s, i + 1, Len(s))

\* one invoked backend action: its name, its tag or branch argument, the stash
\* entry it moved, the branch it ran on and whether it succeeded
Entry(act, tag, e, ok) == [act |-> act, tag |-> tag, e |-> e, on |-> cur, ok |-> ok]

\* variant: the handler reports and returns
handle_abort_returns(type) ==
    [raised |-> FALSE, kind |-> "abort_action"]
\* handle_abort: report, by failure type, then raise click.Abort
handle_abort(type) ==
    [raised |-> TRUE,
     kind |-> IF type = "merge" THEN "abort_merge"
              ELSE IF type = "unpublish" THEN "abort_unpublish"
              ELSE "abort_action"]

\* a failed backend action goes through settings.abort_handler; next is where
\* the workflow would go on if the handler returned
Fail(type, next, res) ==
    IF handle_abort(type).raised
    THEN pc' = "done" /\ result' = handle_abort(type).kind
    ELSE pc' = next /\ result' = res

\* raise click.Abort in the command itself (user-input abort)
InputAbort == pc' = "done" /\ result' = "abort_input"

\* cli.py 55-62 and the bookkeeping at the start of a command: the group makes
\* a new SCMRepo and sets its fake flag from the group's own --fake (each
\* command then sets scm.fake again from its own option); the run's record is
\* reset and the repository is remembered as the command found it
BeginRun(c, a, f) ==
    /\ Idle
    /\ runs < MaxRuns
    /\ runs' = runs + 1
    /\ prev' = IF cmd = "publish" /\ result = "success" /\ log # <<>>
               THEN branch ELSE NONE
    /\ cmd' = c
    /\ arg' = a
    /\ fake0' = f
    /\ UNCHANGED cliFake
    /\ log' = <<>>
    /\ tree0' = tree
    /\ cur0' = cur
    /\ stash0' = stash
    /\ local0' = localC
    /\ tracking0' = tracking
    /\ UNCHANGED <<repoVars, envSteps, cliVars>>

\* SCMRepo.status_log: in fake mode the action is announced, not invoked
status_log(Invoke, Skip) == IF fake THEN Skip ELSE Invoke

\* SCMRepo.stash_it: push the uncommitted changes, tagged, leaving a clean tree
stash_it(sync) ==
    LET e == [tag |-> Tag(sync), branch |-> cur, content |-> tree]
    IN /\ stash' = <<e>> \o stash
       /\ tree' = Clean
       /\ log' = Append(log, Entry("stash_it", Tag(sync), e, TRUE))

\* SCMRepo.unstash_it: pop the entry unstash_index found
unstash_it(sync) ==
    LET i == unstash_index(sync)
    IN /\ stash' = RemoveAt(stash, i)
       /\ tree' = stash[i].content
       /\ log' = Append(log, Entry("unstash_it", Tag(sync), stash[i], TRUE))

\* a push is accepted when the remote has nothing the local branch lacks, or
\* the branch is not on the remote yet; it creates the remote branch and its
\* remote-tracking counterpart
PushAccepted(b) == b \notin remoteRefs \/ remoteC[b] \subseteq localC[b]
DoPush(b) ==
    /\ remoteC' = [remoteC EXCEPT ![b] = localC[b]]
    /\ remoteRefs' = remoteRefs \cup {b}
    /\ tracking' = tracking \cup {b}

\* the merge of smart_pull can conflict only when both sides have commits
\* the other lacks
Diverged(b) == localC[b] \ remoteC[b] # {} /\ remoteC[b] \ localC[b] # {}

\* ------------------------------------------------------------------ switch
\* cli.py 70-79: set the flags on the shared object, refuse a missing branch
switch_enter(tb, f, ret) ==
    /\ fake' = f
    /\ to_branch' = tb
    /\ swRet' = ret
    /\ IF tb = NONE
       THEN InputAbort
       ELSE pc' = "sw_stash" /\ result' = "running"

StartSwitch(a, f) ==
    /\ BeginRun("switch", a, f)
    /\ switch_enter(a, f, "top")
    /\ branch' = NONE
    /\ original_branch' = NONE
    /\ is_external' = FALSE

\* variant: the switch stash is pushed with the sync tag
SwitchStash_sync_tag ==
    /\ pc = "sw_stash"
    /\ IF tree # Clean
       THEN status_log(stash_it(TRUE), UNCHANGED <<stash, tree, log>>)
       ELSE UNCHANGED <<stash, tree, log>>
    /\ pc' = "sw_checkout"
    /\ UNCHANGED <<cur, tracking, remoteRefs, localC, remoteC, hasRemote,
                   fake, frameVars, result, histVars, envSteps, cliVars>>

\* cli.py 81-82
SwitchStash ==
    /\ pc = "sw_stash"
    /\ IF tree # Clean
       THEN status_log(stash_it(FALSE), UNCHANGED <<stash, tree, log>>)
       ELSE UNCHANGED <<stash, tree, log>>
    /\ pc' = "sw_checkout"
    /\ UNCHANGED <<cur, tracking, remoteRefs, localC, remoteC, hasRemote,
                   fake, frameVars, result, histVars, envSteps, cliVars>>

\* SCMRepo.checkout_branch: fails for a name that is no branch
checkout_branch(b) ==
    /\ log' = Append(log, Entry("checkout_branch", b, NoEntry, b \in Branches))
    /\ IF b \in Branches
       THEN cur' = b /\ pc' = "sw_unstash" /\ UNCHANGED result
       ELSE UNCHANGED cur /\ Fail(NONE, "sw_unstash", result)

\* cli.py 84-85
SwitchCheckout ==
    /\ pc = "sw_checkout"
    /\ status_log(checkout_branch(to_branch),
                  pc' = "sw_unstash" /\ UNCHANGED <<cur, log, result>>)
    /\ UNCHANGED <<tree, stash, tracking, remoteRefs, localC, remoteC, hasRemote,
                   fake, frameVars, histVars, envSteps, cliVars>>

\* where a finished switch goes on: the command line, or the sync that
\* invoked it
Return(ret) ==
    IF ret = "sy_stash"
    THEN pc' = "sy_stash" /\ UNCHANGED result
    ELSE pc' = "done" /\ result' = "success"

\* variant: whatever is on top of the stash list is popped
SwitchUnstash_pops_top ==
    /\ pc = "sw_unstash"
    /\ IF stash # <<>>
       THEN status_log(
              /\ stash' = Tail(stash)
              /\ tree' = Head(stash).content
              /\ log' = Append(log, Entry("unstash_it", "switch", Head(stash), TRUE))
              /\ Return(swRet),
              UNCHANGED <<stash, tree, log>> /\ Return(swRet))
       ELSE UNCHANGED <<stash, tree, log>> /\ Return(swRet)
    /\ UNCHANGED <<cur, tracking, remoteRefs, localC, remoteC, hasRemote,
                   fake, frameVars, histVars, envSteps, cliVars>>

\* cli.py 87-88
SwitchUnstash ==
    /\ pc = "sw_unstash"
    /\ IF unstash_index(FALSE) # 0
       THEN status_log(
              IF tree = Clean
              THEN unstash_it(FALSE) /\ Return(swRet)
              ELSE /\ log' = Append(log, Entry("unstash_it", "switch", NoEntry, FALSE))
                   /\ UNCHANGED <<stash, tree>>
                   /\ Fail("merge", "done", "success"),
              UNCHANGED <<stash, tree, log>> /\ Return(swRet))
       ELSE UNCHANGED <<stash, tree, log>> /\ Return(swRet)
    /\ UNCHANGED <<cur, tracking, remoteRefs, localC, remoteC, hasRemote,
                   fake, frameVars, histVars, envSteps, cliVars>>

\* -------------------------------------------------------------------- sync

\* variant: a target that resolves to the current branch is not external
StartSync_external_only_if_differs(a, f) ==
    /\ BeginRun("sync", a, f)
    /\ fake' = f
    /\ to_branch' = NONE
    /\ swRet' = "top"
    /\ IF ~hasRemote
       THEN /\ InputAbort
            /\ branch' = NONE /\ original_branch' = NONE /\ is_external' = FALSE
       ELSE IF Truthy(a)
       THEN /\ branch' = fuzzy_match_branch(a)
            /\ IF fuzzy_match_branch(a) # NONE
               THEN /\ is_external' = (fuzzy_match_branch(a) # cur)
                    /\ original_branch' = cur
                    /\ IF fuzzy_match_branch(a) \in tracking
                       THEN pc' = "sy_switch" /\ result' = "running"
                       ELSE InputAbort
               ELSE /\ is_external' = FALSE
                    /\ original_branch' = NONE
                    /\ InputAbort
       ELSE /\ branch' = cur
            /\ is_external' = FALSE
            /\ original_branch' = NONE
            /\ IF cur \in tracking
               THEN pc' = "sy_switch" /\ result' = "running"
               ELSE InputAbort

\* cli.py 103-123 and 140-143: flags, remote check, target resolution,
\* published check
StartSync(a, f) ==
    /\ BeginRun("sync", a, f)
    /\ fake' = f
    /\ to_branch' = NONE
    /\ swRet' = "top"
    /\ IF ~hasRemote
       THEN /\ InputAbort
            /\ branch' = NONE /\ original_branch' = NONE /\ is_external' = FALSE
       ELSE IF Truthy(a)
       THEN /\ branch' = fuzzy_match_branch(a)
            /\ IF fuzzy_match_branch(a) # NONE
               THEN /\ is_external' = TRUE
                    /\ original_branch' = cur
                    /\ IF fuzzy_match_branch(a) \in tracking
                       THEN pc' = "sy_switch" /\ result' = "running"
                       ELSE InputAbort
               ELSE /\ is_external' = FALSE
                    /\ original_branch' = NONE
                    /\ InputAbort
       ELSE /\ branch' = cur
            /\ is_external' = FALSE
            /\ original_branch' = NONE
            /\ IF cur \in tracking
               THEN pc' = "sy_switch" /\ result' = "running"
               ELSE InputAbort

\* cli.py 125-126: ctx.invoke(switch, to_branch=branch) runs switch with the
\* defaults of the options it is not given: verbose and fake off
SyncSwitch ==
    /\ pc = "sy_switch"
    /\ IF is_external
       THEN switch_enter(branch, FALSE, "sy_stash")
       ELSE pc' = "sy_stash" /\ UNCHANGED <<fake, to_branch, swRet, result>>
    /\ UNCHANGED <<repoVars, cmd, arg, branch, original_branch, is_external,
                   log, histVars, envSteps, cliVars>>

\* variant: after the stash the workflow goes straight to the push
SyncStash_skips_pull ==
    /\ pc = "sy_stash"
    /\ IF tree # Clean
       THEN status_log(stash_it(TRUE), UNCHANGED <<stash, tree, log>>)
       ELSE UNCHANGED <<stash, tree, log>>
    /\ pc' = "sy_push"
    /\ UNCHANGED <<cur, tracking, remoteRefs, localC, remoteC, hasRemote,
                   fake, frameVars, result, histVars, envSteps, cliVars>>

\* cli.py 128-129
SyncStash ==
    /\ pc = "sy_stash"
    /\ IF tree # Clean
       THEN status_log(stash_it(TRUE), UNCHANGED <<stash, tree, log>>)
       ELSE UNCHANGED <<stash, tree, log>>
    /\ pc' = "sy_pull"
    /\ UNCHANGED <<cur, tracking, remoteRefs, localC, remoteC, hasRemote,
                   fake, frameVars, result, histVars, envSteps, cliVars>>

\* SCMRepo.smart_pull: fetch, then merge the fetched branch into the current
\* one; a conflict leaves the tree conflicted and goes to the abort handler
smart_pull ==
    \/ /\ log' = Append(log, Entry("smart_pull", cur, NoEntry, TRUE))
       /\ localC' = [localC EXCEPT ![cur] = localC[cur] \cup remoteC[cur]]
       /\ pc' = "sy_push"
       /\ UNCHANGED <<tree, result>>
    \/ /\ Diverged(cur)
       /\ log' = Append(log, Entry("smart_pull", cur, NoEntry, FALSE))
       /\ tree' = Conflicted
       /\ UNCHANGED localC
       /\ Fail("merge", "sy_push", result)

\* cli.py 131
SyncPull ==
    /\ pc = "sy_pull"
    /\ status_log(smart_pull,
                  pc' = "sy_push" /\ UNCHANGED <<localC, tree, log, result>>)
    /\ UNCHANGED <<cur, stash, tracking, remoteRefs, remoteC, hasRemote,
                   fake, frameVars, histVars, envSteps, cliVars>>

\* SCMRepo.push
push(b) ==
    /\ log' = Append(log, Entry("push", b, NoEntry, PushAccepted(b)))
    /\ IF PushAccepted(b)
       THEN DoPush(b) /\ pc' = "sy_unstash" /\ UNCHANGED result
       ELSE UNCHANGED <<remoteC, remoteRefs, tracking>>
            /\ Fail(NONE, "sy_unstash", result)

\* variant: the branch the run started on is pushed, not the target
SyncPush_original_branch ==
    /\ pc = "sy_push"
    /\ status_log(push(cur0),
                  /\ pc' = "sy_unstash"
                  /\ UNCHANGED <<remoteC, remoteRefs, tracking, log, result>>)
    /\ UNCHANGED <<cur, tree, stash, localC, hasRemote,
                   fake, frameVars, histVars, envSteps, cliVars>>

\* cli.py 132
SyncPush ==
    /\ pc = "sy_push"
    /\ status_log(push(branch),
                  /\ pc' = "sy_unstash"
                  /\ UNCHANGED <<remoteC, remoteRefs, tracking, log, result>>)
    /\ UNCHANGED <<cur, tree, stash, localC, hasRemote,
                   fake, frameVars, histVars, envSteps, cliVars>>

\* variant: the stash is looked up and popped without the sync tag
SyncUnstash_without_tag ==
    /\ pc = "sy_unstash"
    /\ IF unstash_index(FALSE) # 0
       THEN status_log(
              IF tree = Clean
              THEN unstash_it(FALSE) /\ pc' = "sy_back" /\ UNCHANGED result
              ELSE /\ log' = Append(log, Entry("unstash_it", "switch", NoEntry, FALSE))
                   /\ UNCHANGED <<stash, tree>>
                   /\ Fail("merge", "sy_back", result),
              UNCHANGED <<stash, tree, log, result>> /\ pc' = "sy_back")
       ELSE UNCHANGED <<stash, tree, log, result>> /\ pc' = "sy_back"
    /\ UNCHANGED <<cur, tracking, remoteRefs, localC, remoteC, hasRemote,
                   fake, frameVars, histVars, envSteps, cliVars>>

\* cli.py 134-135
SyncUnstash ==
    /\ pc = "sy_unstash"
    /\ IF unstash_index(TRUE) # 0
       THEN status_log(
              IF tree = Clean
              THEN unstash_it(TRUE) /\ pc' = "sy_back" /\ UNCHANGED result
              ELSE /\ log' = Append(log, Entry("unstash_it", "sync", NoEntry, FALSE))
                   /\ UNCHANGED <<stash, tree>>
                   /\ Fail("merge", "sy_back", result),
              UNCHANGED <<stash, tree, log, result>> /\ pc' = "sy_back")
       ELSE UNCHANGED <<stash, tree, log, result>> /\ pc' = "sy_back"
    /\ UNCHANGED <<cur, tracking, remoteRefs, localC, remoteC, hasRemote,
                   fake, frameVars, histVars, envSteps, cliVars>>

\* variant: the switch at the end goes to the target again
SyncBack_to_target ==
    /\ pc = "sy_back"
    /\ IF is_external
       THEN switch_enter(branch, FALSE, "sy_end")
       ELSE /\ pc' = "done" /\ result' = "success"
            /\ UNCHANGED <<fake, to_branch, swRet>>
    /\ UNCHANGED <<repoVars, cmd, arg, branch, original_branch, is_external,
                   log, histVars, envSteps, cliVars>>

\* cli.py 137-138
SyncBack ==
    /\ pc = "sy_back"
    /\ IF is_external
       THEN switch_enter(original_branch, FALSE, "sy_end")
       ELSE /\ pc' = "done" /\ result' = "success"
            /\ UNCHANGED <<fake, to_branch, swRet>>
    /\ UNCHANGED <<repoVars, cmd, arg, branch, original_branch, is_external,
                   log, histVars, envSteps, cliVars>>

\* ----------------------------------------------------------------- publish
\* SCMRepo.repo_check(require_remote=True) fails without a configured remote
repo_check == hasRemote

\* variant: the published check looks the argument up, not the resolved branch
StartPublish_checks_argument(a, f) ==
    /\ BeginRun("publish", a, f)
    /\ fake' = f
    /\ to_branch' = NONE
    /\ swRet' = "top"
    /\ original_branch' = NONE
    /\ is_external' = FALSE
    /\ IF ~repo_check
       THEN InputAbort /\ branch' = NONE
       ELSE LET b == IF fuzzy_match_branch(a) = NONE
                     THEN cur ELSE fuzzy_match_branch(a)
            IN /\ branch' = b
               /\ IF a \in tracking
                  THEN InputAbort
                  ELSE pc' = "pub_push" /\ result' = "running"

\* cli.py 153-174: an argument that resolves to no branch falls back to the
\* current branch; a published branch is refused
StartPublish(a, f) ==
    /\ BeginRun("publish", a, f)
    /\ fake' = f
    /\ to_branch' = NONE
    /\ swRet' = "top"
    /\ original_branch' = NONE
    /\ is_external' = FALSE
    /\ IF ~repo_check
       THEN InputAbort /\ branch' = NONE
       ELSE LET b == IF fuzzy_match_branch(a) = NONE
                     THEN cur ELSE fuzzy_match_branch(a)
            IN /\ branch' = b
               /\ IF b \in tracking
                  THEN InputAbort
                  ELSE pc' = "pub_push" /\ result' = "running"

\* SCMRepo.publish_branch: push the branch upstream
publish_branch(b) ==
    /\ log' = Append(log, Entry("publish_branch", b, NoEntry, PushAccepted(b)))
    /\ IF PushAccepted(b)
       THEN DoPush(b) /\ pc' = "done" /\ result' = "success"
       ELSE UNCHANGED <<remoteC, remoteRefs, tracking>>
            /\ Fail(NONE, "done", "success")

\* variant: the published check comes after the push
PublishPush_checks_late ==
    /\ pc = "pub_push"
    /\ status_log(/\ log' = Append(log, Entry("publish_branch", branch, NoEntry, TRUE))
                  /\ DoPush(branch)
                  /\ InputAbort,
                  /\ pc' = "done" /\ result' = "success"
                  /\ UNCHANGED <<remoteC, remoteRefs, tracking, log>>)
    /\ UNCHANGED <<cur, tree, stash, localC, hasRemote,
                   fake, frameVars, histVars, envSteps, cliVars>>

\* cli.py 176-177
PublishPush ==
    /\ pc = "pub_push"
    /\ status_log(publish_branch(branch),
                  /\ pc' = "done" /\ result' = "success"
                  /\ UNCHANGED <<remoteC, remoteRefs, tracking, log>>)
    /\ UNCHANGED <<cur, tree, stash, localC, hasRemote,
                   fake, frameVars, histVars, envSteps, cliVars>>

\* --------------------------------------------------------------- unpublish
\* variant: an unresolved argument falls back to the current branch, as in
\* publish
StartUnpublish_falls_back(a, f) ==
    /\ a # NONE
    /\ BeginRun("unpublish", a, f)
    /\ fake' = f
    /\ to_branch' = NONE
    /\ swRet' = "top"
    /\ original_branch' = NONE
    /\ is_external' = FALSE
    /\ LET b == IF fuzzy_match_branch(a) = NONE THEN cur ELSE fuzzy_match_branch(a)
       IN /\ branch' = IF repo_check THEN b ELSE NONE
          /\ IF ~repo_check
             THEN InputAbort
             ELSE IF b \notin tracking
             THEN InputAbort
             ELSE pc' = "unp_delete" /\ result' = "running"

\* variant: a branch that is not published is not refused
StartUnpublish_skips_published_check(a, f) ==
    /\ a # NONE
    /\ BeginRun("unpublish", a, f)
    /\ fake' = f
    /\ to_branch' = NONE
    /\ swRet' = "top"
    /\ original_branch' = NONE
    /\ is_external' = FALSE
    /\ branch' = IF repo_check THEN fuzzy_match_branch(a) ELSE NONE
    /\ IF ~repo_check
       THEN InputAbort
       ELSE IF fuzzy_match_branch(a) = NONE
       THEN InputAbort
       ELSE pc' = "unp_delete" /\ result' = "running"

\* cli.py 187-203: the branch argument is required by the command line
StartUnpublish(a, f) ==
    /\ a # NONE
    /\ BeginRun("unpublish", a, f)
    /\ fake' = f
    /\ to_branch' = NONE
    /\ swRet' = "top"
    /\ original_branch' = NONE
    /\ is_external' = FALSE
    /\ branch' = IF repo_check THEN fuzzy_match_branch(a) ELSE NONE
    /\ IF ~repo_check
       THEN InputAbort
       ELSE IF fuzzy_match_branch(a) = NONE
       THEN InputAbort
       ELSE IF fuzzy_match_branch(a) \notin tracking
       THEN InputAbort
       ELSE pc' = "unp_delete" /\ result' = "running"

\* SCMRepo.unpublish_branch: delete the branch on the remote; fails when the
\* remote has no such branch any more
unpublish_branch(b) ==
    /\ log' = Append(log, Entry("unpublish_branch", b, NoEntry, b \in remoteRefs))
    /\ IF b \in remoteRefs
       THEN /\ remoteRefs' = remoteRefs \ {b}
            /\ tracking' = tracking \ {b}
            /\ remoteC' = [remoteC EXCEPT ![b] = {}]
            /\ pc' = "done" /\ result' = "success"
       ELSE /\ UNCHANGED <<remoteRefs, tracking, remoteC>>
            /\ Fail("unpublish", "done", "success")

\* cli.py 205-206
UnpublishDelete ==
    /\ pc = "unp_delete"
    /\ status_log(unpublish_branch(branch),
                  /\ pc' = "done" /\ result' = "success"
                  /\ UNCHANGED <<remoteC, remoteRefs, tracking, log>>)
    /\ UNCHANGED <<cur, tree, stash, localC, hasRemote,
                   fake, frameVars, histVars, envSteps, cliVars>>

\* -------------------------------------------------------------------- undo
\* the changes of an undone commit, uncommitted again
UndoneChanges == "w1"

\* cli.py 220-223
StartUndo(f) ==
    /\ BeginRun("undo", NONE, f)
    /\ fake' = f
    /\ to_branch' = NONE
    /\ swRet' = "top"
    /\ branch' = NONE
    /\ original_branch' = NONE
    /\ is_external' = FALSE
    /\ pc' = "undo_reset"
    /\ result' = "running"

\* the commit a soft reset takes off the current branch
LastCommit == IF LocalCommit1 \in localC[cur] THEN LocalCommit1 ELSE RemoteCommit1

\* SCMRepo.undo: soft reset of the last commit; its changes stay in the
\* working tree
undo ==
    /\ log' = Append(log, Entry("undo", cur, NoEntry, localC[cur] # {}))
    /\ IF localC[cur] # {}
       THEN /\ localC' = [localC EXCEPT ![cur] = localC[cur] \ {LastCommit}]
            /\ tree' = IF tree = Clean THEN UndoneChanges ELSE tree
            /\ pc' = "done" /\ result' = "success"
       ELSE /\ UNCHANGED <<localC, tree>>
            /\ Fail(NONE, "done", "success")

\* cli.py 225
UndoReset ==
    /\ pc = "undo_reset"
    /\ status_log(undo,
                  /\ pc' = "done" /\ result' = "success"
                  /\ UNCHANGED <<localC, tree, log>>)
    /\ UNCHANGED <<cur, stash, tracking, remoteRefs, remoteC, hasRemote,
                   fake, frameVars, histVars, envSteps, cliVars>>

\* ------------------------------------------------------------- environment
\* the process of the last command is gone: its SCMRepo object, its locals
\* and the record of its run are forgotten
Forget ==
    /\ pc' = "idle"
    /\ fake' = FALSE
    /\ cmd' = ""
    /\ arg' = NONE
    /\ to_branch' = NONE
    /\ swRet' = "top"
    /\ branch' = NONE
    /\ original_branch' = NONE
    /\ is_external' = FALSE
    /\ result' = "none"
    /\ log' = <<>>
    /\ tree0' = Clean
    /\ cur0' = "main"
    /\ stash0' = <<>>
    /\ local0' = [b \in Branches |-> {}]
    /\ tracking0' = {}
    /\ fake0' = FALSE
    /\ prev' = NONE
    /\ UNCHANGED <<cliFake, runs, cliVars>>

\* the user edits files between two commands
Edit(c) ==
    /\ Idle
    /\ envSteps < MaxEnv
    /\ envSteps' = envSteps + 1
    /\ tree' = c
    /\ Forget
    /\ UNCHANGED <<cur, stash, tracking, remoteRefs, localC, remoteC, hasRemote>>

\* the user commits on the current branch between two commands
Commit ==
    /\ Idle
    /\ envSteps < MaxEnv
    /\ LocalCommit1 \notin localC[cur]
    /\ envSteps' = envSteps + 1
    /\ localC' = [localC EXCEPT ![cur] = localC[cur] \cup {LocalCommit1}]
    /\ Forget
    /\ UNCHANGED <<cur, tree, stash, tracking, remoteRefs, remoteC, hasRemote>>

\* someone else pushes a commit to a branch of the remote between two commands
RemoteCommit(b) ==
    /\ Idle
    /\ envSteps < MaxEnv
    /\ b \in remoteRefs
    /\ RemoteCommit1 \notin remoteC[b]
    /\ envSteps' = envSteps + 1
    /\ remoteC' = [remoteC EXCEPT ![b] = remoteC[b] \cup {RemoteCommit1}]
    /\ Forget
    /\ UNCHANGED <<cur, tree, stash, tracking, remoteRefs, localC, hasRemote>>

\* someone else deletes a branch on the remote between two commands; the
\* local remote-tracking branch stays until a prune
RemoteDelete(b) ==
    /\ Idle
    /\ envSteps < MaxEnv
    /\ b \in remoteRefs
    /\ envSteps' = envSteps + 1
    /\ remoteRefs' = remoteRefs \ {b}
    /\ Forget
    /\ UNCHANGED <<cur, tree, stash, tracking, localC, remoteC, hasRemote>>

\* ------------------------------------------------------- the command group
\* the names the @cli.command decorators register
Registered == {"switch", "sync", "publish", "unpublish", "branches", "undo",
               "install", "settings", "help"}

\* LegitGroup.command_aliases
command_aliases ==
    [pub |-> "publish", sw |-> "switch", sy |-> "sync", unp |-> "unpublish",
     un |-> "undo"]

\* the groups looked at: the one cli.py builds, and one with a command
\* registered under the name of an alias as well
Groups == {Registered, Registered \cup {"un"}}

\* click.Group.list_commands: the registered names, sorted
Group_list_commands ==
    SelectSeq(<<"branches", "help", "install", "publish", "settings", "switch",
                "sync", "un", "undo", "unpublish">>,
              LAMBDA c : c \in commands)

\* click.Group.get_command: the command registered under the name, or None
Group_get_command(name) == IF name \in commands THEN name ELSE NONE

\* variant: the alias table is consulted before the registered commands
get_command_alias_first(name) ==
    LET aliased == Group_get_command(IF name \in DOMAIN command_aliases
                                     THEN command_aliases[name] ELSE "")
    IN IF aliased # NONE THEN aliased ELSE Group_get_command(name)

\* LegitGroup.get_command
get_command(name) ==
    LET found == Group_get_command(name)
    IN IF found # NONE
       THEN found
       ELSE Group_get_command(IF name \in DOMAIN command_aliases
                              THEN command_aliases[name] ELSE "")

\* the names asked for: commands, aliases, and names that are neither
LookupNames == Registered \cup DOMAIN command_aliases \cup {"zzz", ""}

\* cli.py 42-47, called by click to resolve the command name of the line
GetCommand(name) ==
    /\ cpc = "start"
    /\ cmd_name' = name
    /\ rv' = get_command(name)
    /\ cpc' = "resolved"
    /\ UNCHANGED <<runVars, commands, caller, iterable, left_iterable, todo,
                   ordered, pulled, install_fake, confirmed, aliases, alias_i,
                   system>>

\* --------------------------------------------------- sort_with_similarity
\* elements given to the sort in the calls looked at besides list_commands
Elems == {"pub", "Pub", "sw", "sy"}

\* the key function of the call: case folding, which on the lower-case
\* command names is the default key, the identity
key(x) == IF x = "Pub" THEN "pub" ELSE x

Range(s) == {s[i] : i \in 1..Len(s)}
Keys(d) == [i \in 1..Len(d) |-> d[i][1]]
DictGet(d, k) == d[CHOOSE i \in 1..Len(d) : d[i][1] = k][2]
DictDel(d, ks) == SelectSeq(d, LAMBDA p : p[1] \notin ks)

\* d[k] = v: a key already present keeps its place and takes the new value
DictSet(d, k, v) ==
    IF k \in Range(Keys(d))
    THEN [i \in 1..Len(d) |-> IF d[i][1] = k THEN <<k, v>> ELSE d[i]]
    ELSE Append(d, <<k, v>>)

\* dict(zip([key(elm) for elm in iterable], iterable)), first n elements
RECURSIVE dict_zip(_, _)
dict_zip(it, n) ==
    IF n = 0 THEN <<>> ELSE DictSet(dict_zip(it, n - 1), key(it[n]), it[n])

\* the pairs of command names difflib rates as close (ratio 0.88 and 0.67,
\* above its cutoff 0.6); every other pair of them is below the cutoff
Similar == {{"publish", "unpublish"}, {"un", "undo"}}

\* difflib.get_close_matches(k, names): among the command names, the names
\* similar to k; in a call on another list, which names are close enough is
\* left open: any list of distinct names among those given
get_close_matches(k, names) ==
    IF caller = "install"
    THEN {SelectSeq(names, LAMBDA n : {k, n} \in Similar)}
    ELSE {s \in UNION {[1..n -> Range(names)] : n \in 0..MaxClose} :
             \A i, j \in 1..Len(s) : s[i] = s[j] => i = j}

\* cli.py 324-330: the call, up to the start of the loop
sort_enter(it, who) ==
    /\ iterable' = it
    /\ caller' = who
    /\ ordered' = <<>>
    /\ pulled' = {}
    /\ left_iterable' = dict_zip(it, Len(it))
    /\ todo' = Keys(dict_zip(it, Len(it)))
    /\ cpc' = IF dict_zip(it, Len(it)) = <<>> THEN "sorted" ELSE "sort"

\* a call of sort_with_similarity on a list of its own
SortCall(it) ==
    /\ cpc = "start"
    /\ sort_enter(it, "none")
    /\ UNCHANGED <<runVars, commands, install_fake, confirmed, aliases,
                   alias_i, system, cmd_name, rv>>

\* variant: a close match is appended but stays in the dict
SortLoop_keeps_close ==
    /\ cpc = "sort"
    /\ LET k == Head(todo)
       IN IF k \notin Range(Keys(left_iterable))
          THEN UNCHANGED <<ordered, left_iterable, pulled>>
          ELSE \E close \in get_close_matches(k, Keys(DictDel(left_iterable, {k}))) :
                 /\ ordered' = Append(ordered, DictGet(left_iterable, k))
                       \o [i \in 1..Len(close) |-> DictGet(left_iterable, close[i])]
                 /\ left_iterable' = DictDel(left_iterable, {k})
                 /\ pulled' = pulled \cup
                       {DictGet(left_iterable, c) : c \in Range(close)}
    /\ todo' = Tail(todo)
    /\ cpc' = IF Tail(todo) = <<>> THEN "sorted" ELSE "sort"
    /\ UNCHANGED <<runVars, commands, caller, iterable, install_fake,
                   confirmed, aliases, alias_i, system, cmd_name, rv>>

\* cli.py 331-340: one turn of the for loop over the keys
SortLoop ==
    /\ cpc = "sort"
    /\ LET k == Head(todo)
       IN IF k \notin Range(Keys(left_iterable))
          THEN UNCHANGED <<ordered, left_iterable, pulled>>
          ELSE \E close \in get_close_matches(k, Keys(DictDel(left_iterable, {k}))) :
                 /\ ordered' = Append(ordered, DictGet(left_iterable, k))
                       \o [i \in 1..Len(close) |-> DictGet(left_iterable, close[i])]
                 /\ left_iterable' = DictDel(left_iterable, {k} \cup Range(close))
                 /\ pulled' = pulled \cup
                       {DictGet(left_iterable, c) : c \in Range(close)}
    /\ todo' = Tail(todo)
    /\ cpc' = IF Tail(todo) = <<>> THEN "sorted" ELSE "sort"
    /\ UNCHANGED <<runVars, commands, caller, iterable, install_fake,
                   confirmed, aliases, alias_i, system, cmd_name, rv>>

\* ----------------------------------------------------------------- install
\* list.remove(x): the list without the first x
Remove(s, x) ==
    LET i == CHOOSE i \in 1..Len(s) : s[i] = x /\ \A j \in 1..(i - 1) : s[j] # x
    IN SubSeq(s, 1, i - 1) \o SubSeq(s, i + 1, Len(s))

\* cli.py 232-245: install asks the group for its commands
StartInstall(f) ==
    /\ cpc = "start"
    /\ install_fake' = f
    /\ sort_enter(Group_list_commands, "install")
    /\ UNCHANGED <<runVars, commands, confirmed, aliases, alias_i, system,
                   cmd_name, rv>>

\* variant: the list is used as the group returns it
InstallRemove_keeps_install ==
    /\ cpc = "sorted" /\ caller = "install"
    /\ aliases' = ordered
    /\ alias_i' = 1
    /\ cpc' = "confirm"
    /\ UNCHANGED <<runVars, commands, caller, iterable, left_iterable, todo,
                   ordered, pulled, install_fake, confirmed, system,
                   cmd_name, rv>>

\* cli.py 245-246: the sorted list comes back and 'install' is taken out
InstallRemove ==
    /\ cpc = "sorted" /\ caller = "install"
    /\ aliases' = Remove(ordered, "install")
    /\ alias_i' = 1
    /\ cpc' = "confirm"
    /\ UNCHANGED <<runVars, commands, caller, iterable, left_iterable, todo,
                   ordered, pulled, install_fake, confirmed, system,
                   cmd_name, rv>>

\* cli.py 251, 263-264: click.confirm
InstallConfirm(yes) ==
    /\ cpc = "confirm"
    /\ confirmed' = IF yes THEN "yes" ELSE "no"
    /\ cpc' = IF yes THEN "for_alias" ELSE "end"
    /\ UNCHANGED <<runVars, commands, caller, iterable, left_iterable, todo,
                   ordered, pulled, install_fake, aliases, alias_i, system,
                   cmd_name, rv>>

\* cli.py 252-262: one turn of the loop over the aliases
InstallAlias ==
    /\ cpc = "for_alias"
    /\ IF alias_i > Len(aliases)
       THEN cpc' = "end" /\ UNCHANGED <<alias_i, system>>
       ELSE /\ alias_i' = alias_i + 1
            /\ system' = IF install_fake THEN system
                         ELSE Append(system, aliases[alias_i])
            /\ UNCHANGED cpc
    /\ UNCHANGED <<runVars, commands, caller, iterable, left_iterable, todo,
                   ordered, pulled, install_fake, confirmed, aliases,
                   cmd_name, rv>>

\* ------------------------------------------------------------ specification
InitRepo ==
    /\ cur = "main"
    /\ tree = Clean
    /\ stash = <<>>
    /\ hasRemote \in BOOLEAN
    /\ tracking \in (IF hasRemote THEN SUBSET Branches ELSE {{}})
    /\ remoteRefs = tracking
    /\ localC = [b \in Branches |-> {}]
    /\ remoteC = [b \in Branches |-> {}]
    /\ fake = FALSE
    /\ pc = "idle"
    /\ cmd = ""
    /\ arg = NONE
    /\ to_branch = NONE
    /\ swRet = "top"
    /\ branch = NONE
    /\ original_branch = NONE
    /\ is_external = FALSE
    /\ result = "none"
    /\ log = <<>>
    /\ tree0 = Clean
    /\ cur0 = "main"
    /\ stash0 = <<>>
    /\ local0 = [b \in Branches |-> {}]
    /\ tracking0 = {}
    /\ fake0 = FALSE
    /\ prev = NONE
    /\ runs = 0
    /\ envSteps = 0

\* the group before any of its methods is called
InitGroup ==
    /\ caller = "none"
    /\ iterable = <<>>
    /\ left_iterable = <<>>
    /\ todo = <<>>
    /\ ordered = <<>>
    /\ pulled = {}
    /\ install_fake = FALSE
    /\ confirmed = "unasked"
    /\ aliases = <<>>
    /\ alias_i = 1
    /\ system = <<>>
    /\ cmd_name = NONE
    /\ rv = NONE

\* the workflows start with the group at rest; the command lines carry no
\* option of the group
Init ==
    /\ InitRepo
    /\ InitGroup
    /\ cliFake = FALSE
    /\ cpc = "off"
    /\ commands = Registered

Next ==
    \/ \E a \in Args, f \in BOOLEAN : StartSwitch(a, f)
    \/ SwitchStash
    \/ SwitchCheckout
    \/ SwitchUnstash
    \/ \E a \in Args, f \in BOOLEAN : StartSync(a, f)
    \/ SyncSwitch
    \/ SyncStash
    \/ SyncPull
    \/ SyncPush
    \/ SyncUnstash
    \/ SyncBack
    \/ \E a \in Args, f \in BOOLEAN : StartPublish(a, f)
    \/ PublishPush
    \/ \E a \in Args, f \in BOOLEAN : StartUnpublish(a, f)
    \/ UnpublishDelete
    \/ \E f \in BOOLEAN : StartUndo(f)
    \/ UndoReset
    \/ \E c \in Contents : Edit(c)
    \/ Commit
    \/ \E b \in Branches : RemoteCommit(b)
    \/ \E b \in Branches : RemoteDelete(b)

Spec == Init /\ [][Next]_vars

\* the same workflows, every command line with --fake before the command name
InitTop ==
    /\ InitRepo
    /\ InitGroup
    /\ cliFake = TRUE
    /\ cpc = "off"
    /\ commands = Registered

SpecTop == InitTop /\ [][Next]_vars

\* the group on its own: a list sorted, a name resolved, the aliases installed
InitCli ==
    /\ InitRepo
    /\ InitGroup
    /\ cliFake = FALSE
    /\ cpc = "start"
    /\ commands \in Groups

NextCli ==
    \/ \E name \in LookupNames : GetCommand(name)
    \/ \E it \in UNION {[1..n -> Elems] : n \in 0..MaxLen} : SortCall(it)
    \/ SortLoop
    \/ \E f \in BOOLEAN : StartInstall(f)
    \/ InstallRemove
    \/ \E yes \in BOOLEAN : InstallConfirm(yes)
    \/ InstallAlias

SpecCli == InitCli /\ [][NextCli]_vars

TypeOK ==
    /\ cur \in Branches
    /\ tree \in Contents \cup {Clean, Conflicted}
    /\ remoteRefs \subseteq tracking
    /\ pc \in {"idle", "done", "sw_stash", "sw_checkout", "sw_unstash",
               "sy_switch", "sy_stash", "sy_pull", "sy_push", "sy_unstash",
               "sy_back", "pub_push", "unp_delete", "undo_reset"}
    /\ result \in {"none", "running", "success", "abort_input", "abort_action",
                   "abort_merge", "abort_unpublish"}

\* ------------------------------------------------------------- properties
Ended(c) == pc = "done" /\ cmd = c
Invoked(a) == {i \in 1..Len(log) : log[i].act = a}
InStash(e) == \E i \in 1..Len(stash) : stash[i] = e

\* C1 (as stated): a switch that starts with a dirty working tree and
\* completes without abort ends with the uncommitted content it started with.
C1_SwitchKeepsContent ==
    (Ended("switch") /\ result = "success" /\ tree0 # Clean) => tree = tree0

\* C1 (amended): a switch that starts dirty and completes without abort ends
\* with the content it started with when the target is the branch that was
\* current (the stash pushed at the start is the one popped at the end), and
\* in a dry run; when the target is another branch that has no switch-stash of
\* its own waiting, the run ends with a clean tree on the target and the
\* pushed entry, tagged with the original branch, on top of the stash list.
C1_SwitchRoundTripSameBranch ==
    (Ended("switch") /\ result = "success" /\ tree0 # Clean) =>
        /\ fake0 => (tree = tree0 /\ stash = stash0 /\ log = <<>>)
        /\ (~fake0 /\ to_branch = cur0) =>
              /\ tree = tree0
              /\ stash = stash0
              /\ Len(log) = 3
              /\ log[1].act = "stash_it" /\ log[3].act = "unstash_it"
              /\ log[3].e = log[1].e
              /\ log[1].e.content = tree0
        /\ (~fake0 /\ to_branch # cur0
              /\ ~\E i \in 1..Len(stash0) :
                    stash0[i].tag = "switch" /\ stash0[i].branch = to_branch) =>
              /\ tree = Clean
              /\ cur = to_branch
              /\ stash = <<[tag |-> "switch", branch |-> cur0, content |-> tree0]>>
                            \o stash0

C1_Witness ==
    /\ Ended("switch") /\ result = "success" /\ tree0 # Clean
    /\ ~fake0 /\ to_branch = cur0 /\ Len(log) = 3 /\ tree = tree0

\* C2 (as stated): a stash pop is invoked only after a stash push with the
\* same tag earlier in the same run, and a run that started with a clean
\* tree pops nothing.
C2_PopOnlyAfterPushInRun ==
    /\ \A i \in Invoked("unstash_it") :
          \E j \in 1..(i - 1) :
              log[j].act = "stash_it" /\ log[j].tag = log[i].tag
    /\ tree0 = Clean => Invoked("unstash_it") = {}

\* C2 (amended): a stash pop is invoked only when the stash list holds an
\* entry that stash_it pushed with the same tag on the branch that is current
\* at the pop, in this run or in an earlier one that left it there; the pop
\* takes that entry.  A run that starts with a clean tree and an empty stash
\* list pops nothing.
C2_PopOnlyOwnTaggedEntry ==
    /\ \A i \in Invoked("unstash_it") :
          /\ log[i].ok
          /\ log[i].e.tag = log[i].tag
          /\ log[i].e.branch = log[i].on
          /\ \/ \E k \in 1..Len(stash0) : stash0[k] = log[i].e
             \/ \E j \in 1..(i - 1) :
                   log[j].act = "stash_it" /\ log[j].e = log[i].e
    /\ (tree0 = Clean /\ stash0 = <<>>) => Invoked("unstash_it") = {}

C2_Witness ==
    /\ Ended("sync") /\ is_external /\ result = "success"
    /\ \E i \in Invoked("unstash_it") :
          /\ log[i].tag = "switch"
          /\ \E k \in 1..Len(stash0) : stash0[k] = log[i].e
    /\ \E i \in Invoked("unstash_it") :
          /\ log[i].tag = "sync"
          /\ \E j \in 1..(i - 1) : log[j].act = "stash_it" /\ log[j].e = log[i].e

\* C3: in switch, when a stash was pushed and the checkout that follows
\* fails, the run aborts there: the pushed entry is still on top of the stash
\* list and no stash pop is attempted.
C3_FailedCheckoutKeepsStash ==
    \A i \in Invoked("checkout_branch") :
        (~log[i].ok /\ pc # "idle") =>
            /\ pc = "done"
            /\ result = "abort_action"
            /\ Len(log) = i
            /\ (i > 1 /\ log[i - 1].act = "stash_it") =>
                  (stash # <<>> /\ Head(stash) = log[i - 1].e /\ tree = Clean)

C3_Witness ==
    /\ Ended("switch") /\ result = "abort_action" /\ Len(log) = 2
    /\ log[1].act = "stash_it" /\ log[2].act = "checkout_branch" /\ ~log[2].ok
    /\ Head(stash) = log[1].e

\* C4 (as stated): on every exit path of switch and sync, abort included,
\* every stash entry pushed during the run has been popped when the run ends.
C4_EveryPushPopped ==
    (pc = "done" /\ cmd \in {"switch", "sync"}) =>
        \A i \in Invoked("stash_it") :
            \E j \in (i + 1)..Len(log) :
                log[j].act = "unstash_it" /\ log[j].ok /\ log[j].e = log[i].e

\* C4 (amended): when a switch or sync run completes without abort, every
\* sync-tagged stash pushed during the run, and every switch-tagged stash
\* whose checkout stays on the branch it was pushed on, has been popped when
\* the run ends; a stash that has not been popped when the run ends (one
\* pushed before the step that aborted, or a switch-stash pushed on another
\* branch than the one switched to) is still on the stash list.
C4_PushedStashPoppedOrKept ==
    (pc = "done" /\ cmd \in {"switch", "sync"}) =>
        \A i \in Invoked("stash_it") :
            LET popped == \E j \in (i + 1)..Len(log) :
                              /\ log[j].act = "unstash_it" /\ log[j].ok
                              /\ log[j].e = log[i].e
                stays == i < Len(log) /\ log[i + 1].act = "checkout_branch"
                            /\ log[i + 1].tag = log[i].on
            IN /\ (result = "success" /\ (log[i].tag = "sync" \/ stays)) => popped
               /\ ~popped => InStash(log[i].e)

C4_Witness ==
    /\ Ended("sync") /\ result = "success" /\ is_external
    /\ \E i \in Invoked("stash_it") : log[i].tag = "sync"
    /\ \E i \in Invoked("stash_it") :
          /\ log[i].tag = "switch"
          /\ ~\E j \in (i + 1)..Len(log) :
                log[j].act = "unstash_it" /\ log[j].e = log[i].e

\* C5: a sync that completes without abort loses no commit of the target
\* branch (what is reachable from its local tip afterwards includes what was
\* reachable before), and when it ends the remote tip of the target branch is
\* its local tip.  A dry run (scm.fake still on at the end) invokes no action
\* and so leaves both tips alone.
C5_SyncKeepsCommitsAndPublishesTip ==
    (Ended("sync") /\ result = "success") =>
        /\ local0[branch] \subseteq localC[branch]
        /\ \A b \in Branches : local0[b] \subseteq localC[b]
        /\ ~fake =>
              /\ Invoked("push") # {}
              /\ branch \in remoteRefs
              /\ remoteC[branch] = localC[branch]
        /\ fake => (log = <<>> /\ localC = local0)

C5_Witness ==
    /\ Ended("sync") /\ result = "success" /\ ~fake
    /\ local0[branch] = {LocalCommit1}
    /\ localC[branch] = {LocalCommit1, RemoteCommit1}
    /\ remoteC[branch] = localC[branch]

\* C6: when the smart pull of sync reports a merge conflict the run aborts at
\* that step: no push, no sync-stash pop and no switch back follow it.
C6_ConflictStopsSync ==
    \A i \in Invoked("smart_pull") :
        (~log[i].ok /\ pc # "idle") =>
            /\ pc = "done"
            /\ result = "abort_merge"
            /\ Len(log) = i
            /\ Invoked("push") = {}
            /\ \A j \in Invoked("unstash_it") : log[j].tag # "sync"
            /\ is_external => cur = branch

C6_Witness ==
    /\ Ended("sync") /\ result = "abort_merge" /\ is_external
    /\ Len(log) = 5
    /\ log[2].act = "checkout_branch"
    /\ log[4].act = "stash_it" /\ log[4].tag = "sync" /\ InStash(log[4].e)
    /\ log[5].act = "smart_pull" /\ ~log[5].ok
    /\ tree = Conflicted

\* C7: a run of switch, sync, publish or unpublish that ends in a user-input
\* abort has invoked no mutating backend action, and has left the repository
\* and the remote as it found them.
C7_InputAbortMutatesNothing ==
    (pc = "done" /\ result = "abort_input") =>
        /\ log = <<>>
        /\ tree = tree0 /\ cur = cur0 /\ stash = stash0
        /\ localC = local0 /\ tracking = tracking0

C7_Witness ==
    /\ Ended("sync") /\ result = "abort_input" /\ tree0 # Clean
    /\ hasRemote /\ branch \in Branches /\ branch \notin tracking
    /\ branch # cur

\* C8: after a publish that pushed an unpublished branch, a publish of the
\* same branch as the next command aborts as already published, invokes no
\* push and leaves the set of remote-tracking branches as it was.
C8_SecondPublishAborts ==
    (Ended("publish") /\ prev # NONE /\ branch = prev) =>
        /\ result = "abort_input"
        /\ log = <<>>
        /\ tracking = tracking0
        /\ branch \in tracking

C8_Witness ==
    /\ Ended("publish") /\ prev # NONE /\ branch = prev /\ result = "abort_input"
    /\ arg = "mai"

\* C9 (as stated): a branch argument that resolves to no branch makes
\* publish, unpublish and sync end in a user-input abort, with nothing pushed.
C9_UnresolvedArgumentAborts ==
    (pc = "done" /\ cmd \in {"publish", "unpublish", "sync"}
        /\ Truthy(arg) /\ fuzzy_match_branch(arg) = NONE) =>
        (result = "abort_input" /\ log = <<>>)

\* C9 (amended): a branch argument that names no branch makes unpublish and
\* sync end in a user-input abort with no backend action invoked; publish
\* instead falls back to the current branch: it aborts if that branch is
\* already published and pushes it otherwise.
C9_UnresolvedArgumentAbortsButPublish ==
    (pc = "done" /\ Truthy(arg) /\ fuzzy_match_branch(arg) = NONE) =>
        /\ cmd \in {"unpublish", "sync"} => (result = "abort_input" /\ log = <<>>)
        /\ (cmd = "publish" /\ hasRemote) =>
              /\ branch = cur0
              /\ cur0 \in tracking0 => (result = "abort_input" /\ log = <<>>)
              /\ (cur0 \notin tracking0 /\ ~fake0) =>
                    /\ result = "success"
                    /\ Len(log) = 1
                    /\ log[1].act = "publish_branch" /\ log[1].tag = cur0
                    /\ cur0 \in tracking

C9_Witness ==
    /\ Ended("publish") /\ arg = "zzz" /\ result = "success"
    /\ Len(log) = 1 /\ log[1].tag = cur0 /\ cur0 \notin tracking0

\* C10: unpublish invokes the deletion of the remote branch only for a branch
\* the argument resolved to and that was among the remote-tracking branches
\* at the check; a deletion that fails because the remote branch is gone ends
\* the run in the abort of class 'unpublish', never in a success.
C10_UnpublishDeletesOnlyPublished ==
    \A i \in Invoked("unpublish_branch") :
        /\ cmd = "unpublish"
        /\ i = 1 /\ Len(log) = 1
        /\ fuzzy_match_branch(arg) # NONE
        /\ log[i].tag = fuzzy_match_branch(arg)
        /\ log[i].tag \in tracking0
        /\ (~log[i].ok /\ pc # "idle") =>
              (pc = "done" /\ result = "abort_unpublish" /\ tracking = tracking0)
        /\ (log[i].ok /\ pc # "idle") =>
              (pc = "done" /\ result = "success" /\ log[i].tag \notin tracking)

C10_Witness ==
    /\ Ended("unpublish") /\ result = "abort_unpublish"
    /\ Len(log) = 1 /\ ~log[1].ok /\ arg = "mai" /\ log[1].tag = "main"

\* C11 (as stated): when --fake is given to the group, before the command
\* name, the command that runs (switch, sync, publish, unpublish, undo) has
\* scm.fake on at every step and invokes no backend action.
C11_GroupFakeKeepsCommandFake ==
    (cliFake /\ cmd \in {"switch", "sync", "publish", "unpublish", "undo"}) =>
        (fake /\ log = <<>>)

\* the backend actions only the switch command invokes
IsSwitchAct(e) ==
    \/ e.act = "checkout_branch"
    \/ (e.act \in {"stash_it", "unstash_it"} /\ e.tag = "switch")

SwitchActs(l) == {i \in 1..Len(l) : IsSwitchAct(l[i])}

\* C13 (as stated): sync runs the nested switch, and schedules the switch
\* back, only when an explicit target was given and resolves to a branch other
\* than the current one; when it resolves to the current branch, no checkout
\* and no switch-tagged stash push or pop is invoked.
C13_SwitchOnlyOntoOtherBranch ==
    (cmd = "sync" /\ pc # "idle") =>
        /\ (is_external \/ swRet # "top") => (Truthy(arg) /\ branch # cur0)
        /\ (Truthy(arg) /\ branch = cur0) => SwitchActs(log) = {}

\* C13 (amended): sync runs the nested switch onto the target, and schedules
\* the switch back, exactly when an explicit target was given and resolves to
\* a published branch, the current branch included; with no target no
\* checkout and no switch-tagged stash push or pop is invoked.
C13_SwitchWheneverTargetGiven ==
    (cmd = "sync" /\ pc # "idle") =>
        /\ is_external <=> (hasRemote /\ Truthy(arg) /\ branch # NONE)
        /\ swRet # "top" <=> /\ is_external
                            /\ branch \in tracking0
                            /\ pc # "sy_switch"
        /\ ~Truthy(arg) => SwitchActs(log) = {}

\* a sync onto the branch that is already current, with a dirty tree, has
\* pushed and popped a switch stash around a checkout of that branch
C13_Witness ==
    /\ Ended("sync") /\ result = "success"
    /\ Truthy(arg) /\ branch = cur0
    /\ \E i, j, k \in SwitchActs(log) :
          /\ i < j /\ j < k
          /\ log[i].act = "stash_it" /\ log[j].act = "checkout_branch"
          /\ log[k].act = "unstash_it" /\ log[j].tag = cur0

\* the place of a logged action in the sync workflow: 1 sync-stash push,
\* 2 smart pull, 3 push, 4 sync-stash pop; an action of the nested switch
\* is 0 before all of these (the switch onto the target) and 5 after any of
\* them (the switch back)
SyncRank(l, i) ==
    IF l[i].act = "smart_pull" THEN 2
    ELSE IF l[i].act = "push" THEN 3
    ELSE IF l[i].act = "stash_it" /\ l[i].tag = "sync" THEN 1
    ELSE IF l[i].act = "unstash_it" /\ l[i].tag = "sync" THEN 4
    ELSE IF \E j \in 1..(i - 1) : ~IsSwitchAct(l[j]) THEN 5
    ELSE 0

\* C14: in every sync run the invoked steps come in the order sync-stash push
\* (of a dirty tree only), smart pull, push, sync-stash pop, switch back (for
\* an external target only), each at most once and each only after the one
\* before it succeeded: the push directly follows a successful smart pull,
\* the sync-stash pop comes after a successful push, and the switch back
\* after the push and after the sync-stash pop.
C14_SyncStepOrder ==
    (cmd = "sync" /\ pc # "idle") =>
        LET n == Len(log)
            R == [i \in 1..n |-> SyncRank(log, i)]
            Has(r) == \E i \in 1..n : R[i] = r
        IN /\ \A i \in 1..(n - 1) :
                 /\ log[i].ok
                 /\ R[i] <= R[i + 1]
                 /\ R[i] \in 1..4 => R[i] < R[i + 1]
                 /\ (R[i] = R[i + 1] /\ R[i] \in {0, 5}) =>
                       \A j \in 1..n :
                          (R[j] = R[i] /\ log[j].act = log[i].act) => j = i
           /\ \A i \in 1..n :
                 /\ R[i] = 1 => log[i].e.content # Clean
                 /\ R[i] = 3 => (i > 1 /\ R[i - 1] = 2)
                 /\ R[i] = 4 => Has(3)
                 /\ R[i] = 5 => (is_external /\ Has(3) /\ (Has(1) => Has(4)))
           /\ pc \in {"sy_push", "sy_unstash", "sy_back"} => (fake \/ Has(2))
           /\ pc \in {"sy_unstash", "sy_back"} => (fake \/ Has(3))

\* a sync of another branch that went through every step: sync-stash push,
\* pull, push, pop, then a switch back that itself stashed and restored
C14_Witness ==
    /\ Ended("sync") /\ result = "success" /\ branch # cur0
    /\ \E i \in 1..Len(log) :
          /\ SyncRank(log, i) = 1 /\ SyncRank(log, i + 1) = 2
          /\ SyncRank(log, i + 2) = 3 /\ SyncRank(log, i + 3) = 4
          /\ i + 6 <= Len(log)
          /\ \A j \in (i + 4)..Len(log) : SyncRank(log, j) = 5

\* C15: a sync with an explicit target that completes without abort ends on
\* the branch that was current when it began; a sync without a target is on
\* that branch at every step.
C15_SyncEndsOnStartingBranch ==
    (cmd = "sync" /\ pc # "idle") =>
        /\ (Truthy(arg) /\ pc = "done" /\ result = "success") => cur = cur0
        /\ ~Truthy(arg) => cur = cur0

\* a completed sync of another branch: it checked the target out, pushed
\* there, and checked the starting branch out again
C15_Witness ==
    /\ Ended("sync") /\ result = "success"
    /\ Truthy(arg) /\ branch # cur0 /\ cur = cur0
    /\ \E i, j, k \in 1..Len(log) :
          /\ i < j /\ j < k
          /\ log[i].act = "checkout_branch" /\ log[i].tag = branch
          /\ log[j].act = "push" /\ log[j].on = branch
          /\ log[k].act = "checkout_branch" /\ log[k].tag = cur0

\* the failure type a backend action hands to the abort handler
AbortType(act) ==
    IF act = "unpublish_branch" THEN "unpublish"
    ELSE IF act \in {"smart_pull", "unstash_it"} THEN "merge"
    ELSE NONE

\* C16: the abort handler raises for every failure type (none, merge,
\* unpublish); a backend action that failed is the last action of its run,
\* and the run has ended with the abort outcome of that failure type.
C16_AbortHandlerAlwaysRaises ==
    /\ \A t \in {NONE, "merge", "unpublish"} : handle_abort(t).raised
    /\ pc # "idle" =>
          \A i \in 1..Len(log) :
             ~log[i].ok =>
                /\ i = Len(log)
                /\ pc = "done"
                /\ result = handle_abort(AbortType(log[i].act)).kind
                /\ result \in {"abort_action", "abort_merge", "abort_unpublish"}

\* an unpublish whose remote deletion failed ended there, as an abort of type
\* unpublish
C16_Witness ==
    /\ Ended("unpublish") /\ result = "abort_unpublish"
    /\ Len(log) = 1 /\ log[1].act = "unpublish_branch" /\ ~log[1].ok

\* C17 (as stated): during a sync run scm.fake keeps the value sync set at
\* its start, also after the nested switch onto the target and back, so a
\* sync started with --fake invokes no backend action.
C17_SyncKeepsFake ==
    (cmd = "sync" /\ pc # "idle") =>
        /\ fake = fake0
        /\ fake0 => log = <<>>

\* position of an element in a list that holds it
Pos(s, x) == CHOOSE i \in 1..Len(s) : s[i] = x

\* the keys of the list given to the sort are pairwise distinct
DistinctKeys ==
    \A i, j \in 1..Len(iterable) :
       key(iterable[i]) = key(iterable[j]) => i = j

\* C18: when sort_with_similarity returns for a list with pairwise distinct
\* keys, whatever the close-match primitive answered, the result is a
\* permutation of the list (same length, every element exactly once), its
\* first element is the first element of the list, and the elements not
\* pulled forward as a close match keep their relative order.
C18_SortIsPermutation ==
    (cpc = "sorted" /\ DistinctKeys) =>
        /\ Len(ordered) = Len(iterable)
        /\ \A i \in 1..Len(iterable) :
              \E j \in 1..Len(ordered) :
                 /\ ordered[j] = iterable[i]
                 /\ \A m \in 1..Len(ordered) : ordered[m] = iterable[i] => m = j
        /\ iterable # <<>> => ordered[1] = iterable[1]
        /\ \A i, j \in 1..Len(iterable) :
              (i < j /\ iterable[i] \notin pulled /\ iterable[j] \notin pulled)
                 => Pos(ordered, iterable[i]) < Pos(ordered, iterable[j])

\* a list of three, its last element pulled forward past the second as a
\* close match of the first
C18_Witness ==
    /\ cpc = "sorted" /\ caller = "none" /\ DistinctKeys
    /\ Len(iterable) = 3
    /\ ordered = <<iterable[1], iterable[3], iterable[2]>>
    /\ pulled = {iterable[3]}

\* C12: install hands an alias to os.system only after the prompt was
\* confirmed and with its --fake off; with --fake on or the prompt declined
\* nothing is written; no alias is ever written for 'install'; and a
\* confirmed install without --fake has written, at its end, every other
\* command of the group once, in the listed order.
C12_InstallWritesOnlyConfirmedUnfaked ==
    /\ system # <<>> => (confirmed = "yes" /\ ~install_fake)
    /\ (install_fake \/ confirmed = "no") => system = <<>>
    /\ "install" \notin Range(system)
    /\ (cpc = "end" /\ confirmed = "yes" /\ ~install_fake) =>
          /\ system = aliases
          /\ Range(system) = commands \ {"install"}
          /\ Len(system) = Cardinality(commands) - 1

\* a confirmed install without --fake has written the eight aliases of the
\* program's group, unpublish listed right after publish
C12_Witness ==
    /\ cpc = "end" /\ confirmed = "yes" /\ ~install_fake
    /\ commands = Registered
    /\ system = <<"branches", "help", "publish", "unpublish", "settings",
                  "switch", "sync", "undo">>

\* C19: get_command returns the command registered under the name when there
\* is one, also when the name is an alias as well; otherwise, for pub, sw,
\* sy, unp and un, the command the name is an alias of; otherwise none.
C19_GetCommandResolution ==
    cpc = "resolved" =>
        rv = IF cmd_name \in commands THEN cmd_name
             ELSE IF cmd_name = "pub" THEN "publish"
             ELSE IF cmd_name = "sw" THEN "switch"
             ELSE IF cmd_name = "sy" THEN "sync"
             ELSE IF cmd_name = "unp" THEN "unpublish"
             ELSE IF cmd_name = "un" THEN "undo"
             ELSE NONE

\* the alias unp resolved to the unpublish command
C19_Witness ==
    /\ cpc = "resolved" /\ commands = Registered
    /\ cmd_name = "unp" /\ rv = "unpublish"

====
